---- MODULE Spec2Model ----
(***************************************************************************)
(* Trainer of the Siamese one-shot network (trainer.py): the epoch loop of *)
(* Trainer.train with its early stop, checkpoint cadence and log files,    *)
(* the evaluation pass Trainer.test, and the checkpoint store              *)
(* save_checkpoint / load_checkpoint.                                      *)
(*                                                                         *)
(* The network, the optimizer, the loss and the data loaders are opaque:   *)
(* model_state / optim_state count the optimizer steps applied, and the    *)
(* index a trial's batch predicts is a nondeterministic choice.            *)
(* Accuracies are exact fractions <<numerator, denominator>> in lowest     *)
(* terms (the value of the Python division correct / num_valid).           *)
(***************************************************************************)
EXTENDS Integers, Sequences, FiniteSets, TLC

VARIABLES
    dir,            \* model_dir: file name -> file content
    train_csv,      \* rows of logs_dir/train.csv
    valid_csv,      \* rows of logs_dir/valid.csv
    train_file,     \* handle of train.csv in the running train(): none/open/closed
    valid_file,     \* handle of valid.csv
    pc,             \* position of train()
    exc,            \* the exception that ended train(), "none" otherwise
    config,         \* [epochs, train_patience, resume] of the running train()
    num_train,      \* len(train_loader)
    num_valid,      \* len(valid_loader)
    start_epoch, best_epoch, best_valid_acc,
    model_state, optim_state,
    counter, it, epoch, i, correct, valid_acc, is_best,
    runs,           \* train() invocations so far
    executed,       \* epochs whose body this train() has entered
    accs,           \* [epoch, acc]: the final valid_acc of each epoch of this train()
    init_best,      \* best_valid_acc when this train() entered its loop
    saved,          \* save_checkpoint calls completed by this train()
    zero_preds,     \* trials of the running pass whose best candidate is index 0
    num_test,       \* test_loader.dataset.trials of the running test()
    test_acc,       \* the percentage test() reports
    call            \* the last direct call of save_checkpoint / load_checkpoint

fsVars == <<dir, train_csv, valid_csv>>
fileVars == <<train_file, valid_file>>
cfgVars == <<config, num_train, num_valid>>
bestVars == <<start_epoch, best_epoch, best_valid_acc>>
netVars == <<model_state, optim_state>>
loopVars == <<counter, it, epoch, i, correct, valid_acc, is_best>>
ghostVars == <<executed, accs, init_best, saved, zero_preds>>
testVars == <<num_test, test_acc>>
vars == <<fsVars, fileVars, pc, exc, cfgVars, bestVars, netVars, loopVars,
          runs, ghostVars, testVars, call>>

\* ------------------------------------------------------------------ bounds
MaxEpochs == 12     \* config.epochs ranges over 0..MaxEpochs
MaxPatience == 1    \* config.train_patience ranges over 0..MaxPatience
MaxTrain == 2       \* len(train_loader) ranges over 1..MaxTrain
MaxValid == 2       \* len(valid_loader) ranges over 0..MaxValid
MaxRuns == 3        \* train() invocations on one checkpoint directory
MinTag == 8         \* epoch field of a state saved by a direct call:
MaxTag == 10        \*   MinTag..MaxTag, one and two digits long
MaxFiles == 2       \* history records a direct call may create
MaxBlob == 1        \* model_state of a state saved by a direct call
MaxWay == 2         \* candidates of a trial: the predicted index is in 0..MaxWay-1
MaxTest == 2        \* test_loader.dataset.trials ranges over 0..MaxTest

\* --------------------------------------------------------------- fractions
RECURSIVE GCD(_, _)
GCD(a, b) == IF b = 0 THEN a ELSE GCD(b, a % b)

\* correct / num_valid (trainer.py:127), in lowest terms
Div(c, n) == LET g == GCD(c, n) IN <<c \div g, n \div g>>

Zero == <<0, 1>>

\* valid_acc > best_valid_acc (trainer.py:132)
Gt(a, b) == a[1] * b[2] > b[1] * a[2]

\* ------------------------------------------------------- checkpoint store
NoState == [epoch |-> -1, best_epoch |-> -1, best_valid_acc |-> Zero,
            model_state |-> -1, optim_state |-> -1]

BestFile == [base |-> "best_model", n |-> 0]
CkptFile(e) == [base |-> "model_ckpt", n |-> e]

\* the file name save_checkpoint writes (trainer.py:199-202)
Filename(state, best) == IF best THEN BestFile ELSE CkptFile(state.epoch)

Full(state) == [ok |-> TRUE, state |-> state]
Partial == [ok |-> FALSE, state |-> NoState]

WriteFile(d, f, content) ==
    [g \in DOMAIN d \cup {f} |-> IF g = f THEN content ELSE d[g]]

\* save_checkpoint when torch.save completes (trainer.py:197-205)
save_checkpoint(d, state, best) == WriteFile(d, Filename(state, best), Full(state))

\* torch.save opens the path for writing and dies before the record is whole
torch_save_torn(d, state, best) == WriteFile(d, Filename(state, best), Partial)

\* len(str(n))
RECURSIVE Digits(_)
Digits(n) == IF n < 10 THEN 1 ELSE 1 + Digits(n \div 10)

\* len of "model_ckpt_<n>.tar"; the directory prefix is the same for all
PathLen(f) == 11 + Digits(f.n) + 4

\* glob(model_dir + '/model_ckpt_*')
Glob(d) == {f \in DOMAIN d : f.base = "model_ckpt"}

\* sorted(glob(...), key=len)[-1]: the sort is stable and glob lists the
\* directory in arbitrary order, so any longest name can come last
SortedByLenLast(d) == {f \in Glob(d) : \A g \in Glob(d) : PathLen(g) <= PathLen(f)}

Outcome(e, s) == [exc |-> e, ckpt |-> s]

\* torch.load(model_path) (trainer.py:216)
torch_load(d, f) ==
    IF f \notin DOMAIN d THEN Outcome("FileNotFoundError", NoState)
    ELSE IF ~d[f].ok THEN Outcome("UnpicklingError", NoState)
    ELSE Outcome("none", d[f].state)

\* load_checkpoint(best): the set of its possible outcomes (trainer.py:207-224)
load_checkpoint(d, best) ==
    IF Glob(d) = {} THEN {Outcome("IndexError", NoState)}
    ELSE {torch_load(d, IF best THEN BestFile ELSE p) : p \in SortedByLenLast(d)}

\* --------------------------------------------------------------- train()
CkptEvery == 5

\* the hyperparameters of the experiment; every train() on the directory is
\* a Trainer built from them, and the invocations differ in resume only
Configs == [epochs : 0..MaxEpochs, train_patience : 0..MaxPatience,
            resume : {FALSE}]

Ended == {"returned", "stopped", "raised"}
Callable == pc \in {"idle"} \cup Ended

\* range(0, self.config.epochs): the first epoch of the loop (trainer.py:74-76)
FirstEpoch(start) == 0

\* the improvement check recording the 1-based epoch, as the checkpoint's
\* epoch field does
ImprovementOneBased(v, b, be, e, cnt) ==
    IF Gt(v, b)
    THEN [is_best |-> TRUE, best_valid_acc |-> v, best_epoch |-> e + 1,
          counter |-> 0]
    ELSE [is_best |-> FALSE, best_valid_acc |-> b, best_epoch |-> be,
          counter |-> cnt + 1]

\* the improvement check (trainer.py:131-139)
Improvement(v, b, be, e, cnt) ==
    IF Gt(v, b)
    THEN [is_best |-> TRUE, best_valid_acc |-> v, best_epoch |-> e, counter |-> 0]
    ELSE [is_best |-> FALSE, best_valid_acc |-> b, best_epoch |-> be,
          counter |-> cnt + 1]

\* a stop test that fires one epoch later than trainer.py:142 does
PatienceExhaustedLate(cnt, patience) == cnt > patience + 1

\* counter > self.config.train_patience (trainer.py:142)
PatienceExhausted(cnt, patience) == cnt > patience

\* is_best or epoch % 5 == 0 or epoch == self.config.epochs (trainer.py:146)
CheckpointDue(best, e, epochs) == best \/ e % CkptEvery = 0 \/ e = epochs

\* the state handed to save_checkpoint (trainer.py:148-154)
Snapshot == [epoch |-> epoch + 1, best_epoch |-> best_epoch,
             best_valid_acc |-> best_valid_acc,
             model_state |-> model_state, optim_state |-> optim_state]

\* the f-string of the epoch summary reads the name `log`, which nothing
\* defines (trainer.py:159)
ReportOutcome == "NameError"

\* trainer.py:63-71 and the loop's iterator
EnterLoop(s) ==
    /\ train_csv' = <<>>
    /\ valid_csv' = <<>>
    /\ train_file' = "open"
    /\ valid_file' = "open"
    /\ start_epoch' = s.epoch
    /\ best_epoch' = s.best_epoch
    /\ best_valid_acc' = s.best_valid_acc
    /\ model_state' = s.model_state
    /\ optim_state' = s.optim_state
    /\ counter' = 0
    /\ it' = FirstEpoch(s.epoch)
    /\ epoch' = -1
    /\ i' = 0
    /\ correct' = 0
    /\ valid_acc' = Zero
    /\ is_best' = FALSE
    /\ pc' = "loop"
    /\ exc' = "none"
    /\ runs' = runs + 1
    /\ executed' = 0
    /\ accs' = <<>>
    /\ init_best' = s.best_valid_acc
    /\ saved' = {}
    /\ zero_preds' = 0
    /\ UNCHANGED <<dir, num_train, num_valid, testVars, call>>

\* train() without resume (trainer.py:37-71)
TrainFresh ==
    /\ Callable
    /\ runs < MaxRuns
    /\ config' = [config EXCEPT !.resume = FALSE]
    /\ EnterLoop([epoch |-> 0, best_epoch |-> 0, best_valid_acc |-> Zero,
               model_state |-> 0, optim_state |-> 0])

\* train() with resume: load_checkpoint(best=False) first (trainer.py:53-57)
TrainResume ==
    /\ Callable
    /\ runs < MaxRuns
    /\ config' = [config EXCEPT !.resume = TRUE]
    /\ \E o \in load_checkpoint(dir, FALSE) :
         IF o.exc = "none"
         THEN EnterLoop(o.ckpt)
         ELSE /\ pc' = "raised"
              /\ exc' = o.exc
              /\ train_file' = "none"
              /\ valid_file' = "none"
              /\ runs' = runs + 1
              /\ executed' = 0
              /\ accs' = <<>>
              /\ saved' = {}
              /\ UNCHANGED <<fsVars, num_train, num_valid, bestVars, netVars,
                              loopVars, init_best, zero_preds, testVars, call>>

\* for epoch in main_pbar (trainer.py:76-82)
ForEpoch ==
    /\ pc = "loop"
    /\ it < config.epochs
    /\ epoch' = it
    /\ it' = it + 1
    /\ i' = 0
    /\ executed' = executed + 1
    /\ pc' = "train"
    /\ UNCHANGED <<fsVars, fileVars, exc, cfgVars, bestVars, netVars, counter,
                   correct, valid_acc, is_best, runs, accs, init_best, saved,
                   zero_preds, testVars, call>>

\* the loop is exhausted: release resources (trainer.py:161-163)
Release ==
    /\ pc = "loop"
    /\ it >= config.epochs
    /\ train_file' = "closed"
    /\ valid_file' = "closed"
    /\ pc' = "returned"
    /\ UNCHANGED <<fsVars, exc, cfgVars, bestVars, netVars, loopVars, runs,
                   ghostVars, testVars, call>>

\* one training batch (trainer.py:83-100)
TrainBatch ==
    /\ pc = "train"
    /\ i < num_train
    /\ model_state' = model_state + 1
    /\ optim_state' = optim_state + 1
    /\ train_csv' = Append(train_csv, epoch * num_train + i)
    /\ i' = i + 1
    /\ UNCHANGED <<dir, valid_csv, fileVars, pc, exc, cfgVars, bestVars, counter,
                   it, epoch, correct, valid_acc, is_best, runs, ghostVars, testVars, call>>

\* a loop that catches the error of a batch and carries on with the batches
AfterBatchFailureCarryOn == "train"

\* nothing in the batch loop catches an exception: it leaves train()
\* (trainer.py:83-100)
AfterBatchFailure == "raised"

\* the forward pass, the loss, the backward pass or the step raises
TrainBatchFails ==
    /\ pc = "train"
    /\ i < num_train
    /\ pc' = AfterBatchFailure
    /\ exc' = "NumericFailure"
    /\ UNCHANGED <<fsVars, fileVars, cfgVars, bestVars, netVars, loopVars, runs,
                   ghostVars, testVars, call>>

\* the training batches are done: start validation (trainer.py:102-107)
BeginValid ==
    /\ pc = "train"
    /\ i = num_train
    /\ correct' = 0
    /\ valid_acc' = Zero
    /\ i' = 0
    /\ zero_preds' = 0
    /\ pc' = "valid"
    /\ UNCHANGED <<fsVars, fileVars, exc, cfgVars, bestVars, netVars, counter, it,
                   epoch, is_best, runs, executed, accs, init_best, saved,
                   testVars, call>>

\* the batches a loader yields for a set of trials: one batch per trial, a
\* probe compared with each of its candidates
Batches(trials) == trials

\* a verdict that counts the trials whose best candidate is index 1
IsCorrectIndexOne(pred) == pred = 1

\* if pred == 0: the trial is counted correct (trainer.py:119, 190)
IsCorrect(pred) == pred = 0

\* one validation batch, a trial whose highest-scoring candidate is pred
\* (trainer.py:109-129)
ValidBatch(pred) ==
    /\ pc = "valid"
    /\ i < Batches(num_valid)
    /\ LET c == IF IsCorrect(pred) THEN correct + 1 ELSE correct
       IN /\ correct' = c
          /\ valid_acc' = Div(c, num_valid)
          /\ valid_csv' = Append(valid_csv, <<epoch, Div(c, num_valid)>>)
    /\ i' = i + 1
    /\ zero_preds' = IF pred = 0 THEN zero_preds + 1 ELSE zero_preds
    /\ UNCHANGED <<dir, train_csv, fileVars, pc, exc, cfgVars, bestVars, netVars,
                   counter, it, epoch, is_best, runs, executed, accs, init_best,
                   saved, testVars, call>>

\* the forward pass of a validation batch raises
ValidBatchFails ==
    /\ pc = "valid"
    /\ i < Batches(num_valid)
    /\ pc' = "raised"
    /\ exc' = "NumericFailure"
    /\ UNCHANGED <<fsVars, fileVars, cfgVars, bestVars, netVars, loopVars, runs,
                   ghostVars, testVars, call>>

\* check for improvement (trainer.py:131-139)
CheckImprovement ==
    /\ pc = "valid"
    /\ i = Batches(num_valid)
    /\ LET r == Improvement(valid_acc, best_valid_acc, best_epoch, epoch, counter)
       IN /\ is_best' = r.is_best
          /\ best_valid_acc' = r.best_valid_acc
          /\ best_epoch' = r.best_epoch
          /\ counter' = r.counter
    /\ accs' = Append(accs, [epoch |-> epoch, acc |-> valid_acc])
    /\ pc' = "decide"
    /\ UNCHANGED <<fsVars, fileVars, exc, cfgVars, start_epoch, netVars, it, epoch,
                   i, correct, valid_acc, runs, executed, init_best, saved,
                   zero_preds, testVars, call>>

\* early stop: return (trainer.py:142-144)
EarlyStop ==
    /\ pc = "decide"
    /\ PatienceExhausted(counter, config.train_patience)
    /\ pc' = "stopped"
    /\ UNCHANGED <<fsVars, fileVars, exc, cfgVars, bestVars, netVars, loopVars,
                   runs, ghostVars, testVars, call>>

\* the checkpoint decision, torch.save completing (trainer.py:146-157)
Checkpoint ==
    /\ pc = "decide"
    /\ ~PatienceExhausted(counter, config.train_patience)
    /\ IF CheckpointDue(is_best, epoch, config.epochs)
       THEN /\ dir' = save_checkpoint(dir, Snapshot, is_best)
            /\ saved' = saved \cup {[epoch |-> epoch, is_best |-> is_best]}
       ELSE UNCHANGED <<dir, saved>>
    /\ pc' = "report"
    /\ UNCHANGED <<train_csv, valid_csv, fileVars, exc, cfgVars, bestVars, netVars,
                   loopVars, runs, executed, accs, init_best, zero_preds,
                   testVars, call>>

\* torch.save raises, before or after it has opened the file for writing
CheckpointFails(torn) ==
    /\ pc = "decide"
    /\ ~PatienceExhausted(counter, config.train_patience)
    /\ CheckpointDue(is_best, epoch, config.epochs)
    /\ dir' = IF torn THEN torch_save_torn(dir, Snapshot, is_best) ELSE dir
    /\ pc' = "raised"
    /\ exc' = "IOFailure"
    /\ UNCHANGED <<train_csv, valid_csv, fileVars, cfgVars, bestVars, netVars,
                   loopVars, runs, ghostVars, testVars, call>>

\* the epoch summary (trainer.py:157-159)
Report ==
    /\ pc = "report"
    /\ IF ReportOutcome = "none"
       THEN pc' = "loop" /\ exc' = exc
       ELSE pc' = "raised" /\ exc' = ReportOutcome
    /\ UNCHANGED <<fsVars, fileVars, cfgVars, bestVars, netVars, loopVars, runs,
                   ghostVars, testVars, call>>

\* ----------------------------------------------------------------- test()
\* (100. * correct) / num_test (trainer.py:194)
Percent(c, n) == Div(100 * c, n)

\* the locals of a train() that has ended no longer exist
TrainLocalsGone ==
    /\ start_epoch' = 0
    /\ best_epoch' = 0
    /\ best_valid_acc' = Zero
    /\ optim_state' = 0
    /\ counter' = 0
    /\ it' = 0
    /\ epoch' = -1
    /\ valid_acc' = Zero
    /\ is_best' = FALSE
    /\ executed' = 0
    /\ accs' = <<>>
    /\ init_best' = Zero
    /\ saved' = {}

\* test() loads the checkpoint and builds its loader (trainer.py:165-177)
TestStart(best, nt) ==
    /\ Callable
    /\ \E o \in load_checkpoint(dir, best) :
         IF o.exc = "none"
         THEN /\ model_state' = o.ckpt.model_state
              /\ pc' = "test"
              /\ exc' = "none"
         ELSE /\ model_state' = 0
              /\ pc' = "test_raised"
              /\ exc' = o.exc
    /\ num_test' = nt
    /\ correct' = 0
    /\ i' = 0
    /\ zero_preds' = 0
    /\ test_acc' = Zero
    /\ TrainLocalsGone
    /\ UNCHANGED <<fsVars, fileVars, cfgVars, runs, call>>

\* one test batch, a trial whose highest-scoring candidate is pred
\* (trainer.py:180-192)
TestBatch(pred) ==
    /\ pc = "test"
    /\ i < Batches(num_test)
    /\ correct' = IF IsCorrect(pred) THEN correct + 1 ELSE correct
    /\ i' = i + 1
    /\ zero_preds' = IF pred = 0 THEN zero_preds + 1 ELSE zero_preds
    /\ UNCHANGED <<fsVars, fileVars, pc, exc, cfgVars, bestVars, netVars, counter,
                   it, epoch, valid_acc, is_best, runs, executed, accs, init_best,
                   saved, testVars, call>>

\* the test accuracy is computed and printed (trainer.py:194-195)
TestReport ==
    /\ pc = "test"
    /\ i = Batches(num_test)
    /\ IF num_test = 0
       THEN /\ pc' = "test_raised"
            /\ exc' = "ZeroDivisionError"
            /\ test_acc' = test_acc
       ELSE /\ pc' = "tested"
            /\ exc' = exc
            /\ test_acc' = Percent(correct, num_test)
    /\ UNCHANGED <<fsVars, fileVars, cfgVars, bestVars, netVars, loopVars, runs,
                   ghostVars, num_test, call>>

NoCall == [op |-> "none", best |-> FALSE, state |-> NoState, done |-> FALSE,
           newest |-> FALSE, follows |-> FALSE, out |-> Outcome("none", NoState)]

\* a new checkpoint directory and no train() yet (trainer.py:22-35)
Constructed ==
    /\ dir = <<>>
    /\ train_csv = <<>>
    /\ valid_csv = <<>>
    /\ train_file = "none"
    /\ valid_file = "none"
    /\ pc = "idle"
    /\ exc = "none"
    /\ start_epoch = 0
    /\ best_epoch = 0
    /\ best_valid_acc = Zero
    /\ model_state = 0
    /\ optim_state = 0
    /\ counter = 0
    /\ it = 0
    /\ epoch = -1
    /\ i = 0
    /\ correct = 0
    /\ valid_acc = Zero
    /\ is_best = FALSE
    /\ runs = 0
    /\ executed = 0
    /\ accs = <<>>
    /\ init_best = Zero
    /\ saved = {}
    /\ zero_preds = 0
    /\ num_test = 0
    /\ test_acc = Zero
    /\ call = NoCall

Init ==
    /\ config \in Configs
    /\ num_train \in 1..MaxTrain
    /\ num_valid \in 0..MaxValid
    /\ Constructed

\* the store is used without train(): the hyperparameters play no part
InitStore ==
    /\ config = [epochs |-> 0, train_patience |-> 0, resume |-> FALSE]
    /\ num_train = 1
    /\ num_valid = 0
    /\ Constructed

\* ------------------------------------- direct calls of the checkpoint store
\* the states a caller hands to save_checkpoint
States == {[epoch |-> e, best_epoch |-> 0, best_valid_acc |-> Zero,
            model_state |-> m, optim_state |-> m + 1] :
           e \in MinTag..MaxTag, m \in 0..MaxBlob}

Room(state, best) ==
    best \/ CkptFile(state.epoch) \in DOMAIN dir \/ Cardinality(Glob(dir)) < MaxFiles

\* save_checkpoint(state, is_best) returns (trainer.py:197-205)
SaveCall(state, best) ==
    /\ pc = "idle"
    /\ Room(state, best)
    /\ dir' = save_checkpoint(dir, state, best)
    /\ call' = [op |-> "save", best |-> best, state |-> state, done |-> TRUE,
                newest |-> \A f \in Glob(dir) : f.n < state.epoch,
                follows |-> FALSE, out |-> Outcome("none", NoState)]
    /\ UNCHANGED <<train_csv, valid_csv, fileVars, pc, exc, cfgVars, bestVars,
                   netVars, loopVars, runs, ghostVars, testVars>>

\* save_checkpoint(state, is_best) raises or the process dies in torch.save,
\* before or after the file was opened for writing
SaveCallFails(state, best, torn) ==
    /\ pc = "idle"
    /\ Room(state, best)
    /\ dir' = IF torn THEN torch_save_torn(dir, state, best) ELSE dir
    /\ call' = [op |-> "save", best |-> best, state |-> state, done |-> FALSE,
                newest |-> \A f \in Glob(dir) : f.n < state.epoch,
                follows |-> FALSE, out |-> Outcome("IOFailure", NoState)]
    /\ UNCHANGED <<train_csv, valid_csv, fileVars, pc, exc, cfgVars, bestVars,
                   netVars, loopVars, runs, ghostVars, testVars>>

\* load_checkpoint(best) returns or raises (trainer.py:207-224); `follows`
\* tells that the call before it was a completed save with the same flag
LoadCall(best) ==
    /\ pc = "idle"
    /\ \E o \in load_checkpoint(dir, best) :
         call' = [op |-> "load", best |-> best, state |-> call.state,
                  done |-> TRUE, newest |-> call.newest,
                  follows |-> (call.op = "save" /\ call.done /\ call.best = best),
                  out |-> o]
    /\ UNCHANGED <<fsVars, fileVars, pc, exc, cfgVars, bestVars, netVars, loopVars,
                   runs, ghostVars, testVars>>

NextStore ==
    \/ \E s \in States, b \in BOOLEAN : SaveCall(s, b)
    \/ \E s \in States, b \in BOOLEAN, torn \in BOOLEAN : SaveCallFails(s, b, torn)
    \/ \E b \in BOOLEAN : LoadCall(b)

Next ==
    \/ TrainFresh
    \/ TrainResume
    \/ ForEpoch
    \/ Release
    \/ TrainBatch
    \/ TrainBatchFails
    \/ BeginValid
    \/ \E pred \in 0..(MaxWay - 1) : ValidBatch(pred)
    \/ ValidBatchFails
    \/ CheckImprovement
    \/ EarlyStop
    \/ Checkpoint
    \/ \E torn \in BOOLEAN : CheckpointFails(torn)
    \/ Report

Spec == Init /\ [][Next]_vars

NextEval ==
    \/ Next
    \/ \E best \in BOOLEAN, nt \in 0..MaxTest : TestStart(best, nt)
    \/ \E pred \in 0..(MaxWay - 1) : TestBatch(pred)
    \/ TestReport

\* the evaluation passes do not depend on the budget: budgets of at most
\* one epoch and one training batch
InitEval ==
    /\ config \in {c \in Configs : c.epochs <= 1}
    /\ num_train = 1
    /\ num_valid \in 0..MaxValid
    /\ Constructed

\* train() and test() on one checkpoint directory; test() is the last call
SpecEval == InitEval /\ [][NextEval]_vars

\* the checkpoint store alone, driven by direct calls
SpecStore == InitStore /\ [][NextStore]_vars

\* ------------------------------------------------------------------ claims
\* this train() entered its loop and has ended other than by an injected
\* failure of a batch or of a file operation
EndedByItself ==
    /\ pc \in Ended
    /\ train_file # "none"
    /\ exc \in {"none", "NameError"}

\* the greatest of b and the accuracies of the sequence a
RECURSIVE MaxAcc(_, _)
MaxAcc(b, a) ==
    IF a = <<>> THEN b
    ELSE LET m == MaxAcc(b, SubSeq(a, 1, Len(a) - 1))
             v == a[Len(a)].acc
         IN IF Gt(v, m) THEN v ELSE m

\* epoch 0 improved on the initial best and no later epoch improved
ImprovedOnlyAtZero ==
    /\ Len(accs) >= 1
    /\ accs[1].epoch = 0
    /\ Gt(accs[1].acc, init_best)
    /\ \A k \in 2..Len(accs) : ~Gt(accs[k].acc, accs[1].acc)

\* C1: when validation accuracy improves at epoch 0 and never again, and the
\* budget exceeds train_patience + 1, train() ends having executed exactly
\* train_patience + 1 epochs.
C1_EarlyStopCount ==
    (EndedByItself /\ ImprovedOnlyAtZero
        /\ config.epochs > config.train_patience + 1)
    => executed = config.train_patience + 1

\* C2: load_checkpoint(best=False) over a directory of completed history
\* records returns the record whose epoch is numerically greatest.
C2_MostRecent ==
    (call.op = "load" /\ ~call.best /\ Glob(dir) # {}
        /\ \A f \in Glob(dir) : dir[f].ok)
    => /\ call.out.exc = "none"
       /\ \A f \in Glob(dir) : f.n <= call.out.ckpt.epoch

\* C3: the first epoch a resumed train() executes is the epoch of the
\* restored checkpoint.
C3_ResumeContinues ==
    (config.resume /\ train_file # "none" /\ executed = 1) => epoch = start_epoch

\* C4: a train() that is not stopped early checkpoints the last epoch of its
\* budget, epoch index epochs - 1.
C4_FinalEpochSaved ==
    (EndedByItself /\ pc # "stopped" /\ config.epochs >= 1)
    => \E s \in saved : s.epoch = config.epochs - 1

\* C5: with epochs = 12, a train() that is not stopped early has written a
\* record for epoch 5 and for epoch 10.
C5_Cadence ==
    (EndedByItself /\ pc # "stopped" /\ config.epochs = 12)
    => \A e \in {5, 10} : \E s \in saved : s.epoch = e

\* C6: load_checkpoint(best=b) right after a completed
\* save_checkpoint(state, is_best=b) succeeds and returns the saved state
\* (for b = false: when the saved epoch exceeds every history epoch present).
C6_RoundTrip ==
    (call.op = "load" /\ call.follows /\ (call.best \/ call.newest))
    => /\ call.out.exc = "none"
       /\ call.out.ckpt = call.state

\* C7: without a failing batch or file operation train() ends either by the
\* early stop or, having executed exactly config.epochs epochs, normally.
C7_RunsToCompletion ==
    EndedByItself
    => \/ pc = "stopped"
       \/ pc = "returned" /\ executed = config.epochs

\* best_epoch names the first epoch of this run whose accuracy is the best
BestEpochProducedBest ==
    \E k \in 1..Len(accs) :
        /\ accs[k].epoch = best_epoch
        /\ accs[k].acc = best_valid_acc
        /\ \A j \in 1..(k - 1) : Gt(accs[k].acc, accs[j].acc)

C8_Bookkeeping ==
    train_file # "none"
    => /\ best_valid_acc = MaxAcc(init_best, accs)
       /\ Gt(best_valid_acc, init_best) => BestEpochProducedBest

C8_NeverDecreases ==
    (runs' = runs /\ train_file # "none") => ~Gt(best_valid_acc, best_valid_acc')

\* C8: during a train() best_valid_acc never decreases, it is the greatest
\* of the initial (restored) value and the validation accuracies observed,
\* and once raised best_epoch is the epoch that produced it.
C8_BestScore == []C8_Bookkeeping /\ [][C8_NeverDecreases]_vars

\* an epoch raised the best score and the checkpoint decision was taken
C8_Witness ==
    /\ pc = "report"
    /\ is_best
    /\ Gt(best_valid_acc, init_best)
    /\ best_epoch = epoch

\* C9: whenever train() has ended after opening its log files, both are
\* closed.
C9_LogsClosed ==
    (pc \in Ended /\ train_file # "none")
    => train_file = "closed" /\ valid_file = "closed"

\* C10: a save_checkpoint that fails part-way leaves what load_checkpoint
\* returned before: whatever was readable is still what is read.
C10_AtomicWrite ==
    [][(call'.op = "save" /\ ~call'.done)
        => \A b \in BOOLEAN :
              (\A o \in load_checkpoint(dir, b) : o.exc = "none")
              => load_checkpoint(dir', b) = load_checkpoint(dir, b)]_vars

\* the step is a completed save_checkpoint of train()
SaveStep == pc = "decide" /\ pc' = "report" /\ saved' # saved

\* C11: a non-best save of train() never writes over a history record that
\* is already in the checkpoint directory (a record some save completed).
C11_AppendOnlyHistory ==
    [][(SaveStep /\ ~is_best)
        => ~(/\ Filename(Snapshot, FALSE) \in DOMAIN dir
             /\ dir[Filename(Snapshot, FALSE)].ok)]_vars

\* C12: with an empty trial set the validation pass of train() and test()
\* end with accuracy 0 and raise nothing.
C12_ZeroTrials ==
    /\ (pc = "decide" /\ num_valid = 0) => valid_acc = Zero
    /\ (pc \in {"tested", "test_raised"} /\ num_test = 0
            /\ exc \notin {"IndexError", "FileNotFoundError", "UnpicklingError"})
       => (pc = "tested" /\ test_acc = Zero)

\* C13: every epoch that train() checkpointed, as best or by the cadence,
\* has its history record in the checkpoint directory.
C13_HistoryPerSave ==
    \A s \in saved : CkptFile(s.epoch + 1) \in DOMAIN dir

\* C14: a resumed train() that overwrites a readable best_model.tar stores a
\* best_valid_acc strictly greater than the one it replaces.
C14_BestNeverRegresses ==
    [][(SaveStep /\ is_best /\ config.resume
            /\ BestFile \in DOMAIN dir /\ dir[BestFile].ok)
        => Gt(dir'[BestFile].state.best_valid_acc,
              dir[BestFile].state.best_valid_acc)]_vars

\* C15: in the epoch in which counter exceeds train_patience, train() stops
\* without a save for that epoch (whatever the epoch index), and once it has
\* stopped that invocation trains, validates and checkpoints nothing more.
C15_EarlyStopWritesNothing ==
    [][/\ (pc = "decide" /\ counter > config.train_patience)
          => (pc' = "stopped" /\ dir' = dir /\ saved' = saved)
       /\ (pc = "stopped" /\ runs' = runs)
          => (/\ pc' \notin {"loop", "train", "valid", "decide", "report"}
              /\ UNCHANGED <<fsVars, executed, accs, saved>>)]_vars

\* train() has stopped early in an epoch the cadence would have saved
C15_Witness ==
    /\ pc = "stopped"
    /\ counter > config.train_patience
    /\ epoch % CkptEvery = 0
    /\ executed = 1
    /\ saved = {}

\* the rows the validation log holds for epoch e
RowsOf(e) == {k \in 1..Len(valid_csv) : valid_csv[k][1] = e}

\* C16: an epoch whose validation phase has completed over at least one trial
\* has exactly one row in the validation log, and that row carries the epoch's
\* final valid_acc.
C16_OneRowPerEpoch ==
    (pc \in {"decide", "report", "stopped"} /\ num_valid >= 1)
        => /\ Cardinality(RowsOf(epoch)) = 1
           /\ \A k \in RowsOf(epoch) : valid_csv[k] = <<epoch, valid_acc>>

IsPrefix(s, t) == Len(s) <= Len(t) /\ SubSeq(t, 1, Len(s)) = s

\* C17: no step of train() removes or changes a row that train.csv or
\* valid.csv already holds; every step leaves the old rows as a prefix.
C17_LogsAppendOnly ==
    [][IsPrefix(train_csv, train_csv') /\ IsPrefix(valid_csv, valid_csv')]_vars

\* the fraction acc, a pair <<numerator, denominator>>, equals n / d
EqualsRatio(acc, n, d) == acc[1] * d = n * acc[2]

\* C18: over a trial set of at least one trial, the final valid_acc of an
\* epoch is the number of trials whose highest-scoring candidate is index 0
\* divided by the number of trials, the percentage of test() is 100 times that
\* ratio, and every trial has given exactly one verdict.
C18_AccuracyIsRatio ==
    /\ (pc = "decide" /\ num_valid >= 1)
          => (i = num_valid /\ EqualsRatio(valid_acc, zero_preds, num_valid))
    /\ pc = "tested"
          => (/\ num_test >= 1
              /\ i = num_test
              /\ EqualsRatio(test_acc, 100 * zero_preds, num_test))

\* test() has reported 50% over two trials, one of them answered with index 0
C18_Witness ==
    /\ pc = "tested"
    /\ num_test = 2
    /\ zero_preds = 1
    /\ test_acc = <<50, 1>>

\* C19: a failure in a batch ends train() with that error: the invocation is
\* in its raised state whenever the error is set, the failing step writes no
\* checkpoint and no log row, and afterwards that invocation processes no
\* batch or epoch, writes no checkpoint and leaves best_valid_acc and
\* best_epoch as they were.
C19_BatchFailureFatal ==
    /\ [](exc = "NumericFailure" => pc = "raised")
    /\ [][/\ (exc # "NumericFailure" /\ exc' = "NumericFailure")
             => UNCHANGED <<fsVars, bestVars, netVars, loopVars, executed, saved>>
          /\ (exc = "NumericFailure" /\ runs' = runs)
             => UNCHANGED <<fsVars, bestVars, netVars, loopVars, executed, saved>>]_vars

\* the second training batch of epoch 0 has failed: the first one is logged,
\* validation never started
C19_Witness ==
    /\ pc = "raised"
    /\ exc = "NumericFailure"
    /\ num_train = 2
    /\ i = 1
    /\ train_csv = <<0>>
    /\ valid_csv = <<>>
    /\ dir = <<>>


============================================================================
